---- MODULE Spec2Model ----
(***************************************************************************)
(* NodeModal (src/features/modals/NodeModal/index.tsx): the node editor of *)
(* the JSON graph view.  The module models                                 *)
(*   - the immutable path helpers getValueByPath / setValueByPath /        *)
(*     mergePrimitivesAtPath over a heap of JavaScript containers, so that *)
(*     copying and in-place writes are different things;                   *)
(*   - JSON.parse / JSON.stringify / template-literal rendering over text  *)
(*     made of lexical tokens;                                             *)
(*   - the React component: its state (isEditing, draft), the two effects, *)
(*     the Edit / Save / Cancel / textarea handlers, and the two external  *)
(*     stores (useFile: contents, useGraph: nodes, selectedNode).          *)
(***************************************************************************)
EXTENDS Integers, Sequences, FiniteSets, TLC

VARIABLES
  contents,      \* useFile: the document text (a sequence of tokens)
  nodes,         \* useGraph: the node list derived from the last parsed document
  nodesGen,      \* identity of the array held in `nodes` (a new array per regeneration)
  pending,       \* useFile -> useGraph: TRUE while a regeneration is scheduled
  selectedNode,  \* useGraph: selectedNode (NullNode when none)
  isEditing,     \* useState(false)
  draft,         \* useState(() => normalized): text of the textarea
  writes,        \* number of setContents calls made so far
  event,         \* the handler that ran last (history)
  rendered,      \* the node list and the node that the effects last ran with
  fnArgs,        \* helper calls: the arguments of the call
  fnRes          \* helper calls: the heap after the call and the value returned

vars == <<contents, nodes, nodesGen, pending, selectedNode, isEditing, draft,
          writes, event, rendered, fnArgs, fnRes>>

uiVars == <<contents, nodes, nodesGen, pending, selectedNode, isEditing, draft,
            writes, event>>

fnVars == <<fnArgs, fnRes>>

(***************************************************************************)
(* Bounds of the model.                                                    *)
(***************************************************************************)
MaxPathLen == 2     \* longest path handed to the helpers in SpecFn
MaxSaves == 2       \* setContents calls per behaviour
MaxRows == 2        \* longest row list handed to normalizeNodeData in SpecRows
MaxRegens == 2      \* node lists the graph store sets per behaviour of SpecSync

(***************************************************************************)
(* JavaScript values.  A value held in a variable or a container slot is a *)
(* primitive or a reference to a heap cell; a JSON tree is the same record *)
(* with its children inline (kids), used for data that is not aliased.     *)
(***************************************************************************)
Prim(t, n, s) == [t |-> t, n |-> n, s |-> s, kids |-> <<>>]

Undef == Prim("undefined", 0, "")

Null == Prim("null", 0, "")

Bool(b) == Prim("boolean", IF b THEN 1 ELSE 0, "")

Num(n) == Prim("number", n, "")

Str(s) == Prim("string", 0, s)

Ref(a) == Prim("ref", a, "")

Entry(k, v) == [k |-> k, v |-> v]

\* [v1, v2, ...]
ArrT(vs) == [t |-> "array", n |-> 0, s |-> "",
             kids |-> [i \in 1..Len(vs) |-> Entry("", vs[i])]]

\* {k1: v1, ...} from <<k1, v1>> pairs, in insertion order
ObjT(kvs) == [t |-> "object", n |-> 0, s |-> "",
              kids |-> [i \in 1..Len(kvs) |-> Entry(kvs[i][1], kvs[i][2])]]

IsContainerT(v) == v.t \in {"array", "object"}

\* typeof v === "object" && v !== null, for a value held in a slot
IsObjectValue(v) == v.t = "ref"

\* mutant of IsArray: every object passes for an array
IsArrayAnyObject(h, v) == v.t = "ref"

\* Array.isArray(v)
IsArray(h, v) == v.t = "ref" /\ h[v.n].arr

IsPlainObject(h, v) == v.t = "ref" /\ ~h[v.n].arr

\* arr[idx] (0-based); a hole or an index past the end reads undefined
ArrGet(kids, idx) == IF idx < Len(kids) THEN kids[idx + 1].v ELSE Undef

\* arr[idx] = x; writing past the end leaves holes
ArrSet(kids, idx, x) ==
  [i \in 1..(IF idx < Len(kids) THEN Len(kids) ELSE idx + 1) |->
     IF i = idx + 1 THEN Entry("", x)
     ELSE IF i <= Len(kids) THEN kids[i] ELSE Entry("", Undef)]

HasKey(kids, key) == \E i \in 1..Len(kids) : kids[i].k = key

\* obj[key]; an absent own property reads undefined (the keys of the model
\* are not names that Object.prototype defines)
ObjGet(kids, key) ==
  IF HasKey(kids, key)
  THEN kids[CHOOSE i \in 1..Len(kids) : kids[i].k = key].v
  ELSE Undef

\* obj[key] = x; an existing key keeps its place, a new key goes last
ObjSet(kids, key, x) ==
  IF HasKey(kids, key)
  THEN [i \in 1..Len(kids) |-> IF kids[i].k = key THEN Entry(key, x) ELSE kids[i]]
  ELSE Append(kids, Entry(key, x))

(***************************************************************************)
(* The heap: a sequence of cells; the address of a cell is its index.      *)
(***************************************************************************)
Cell(isArr, kids) == [arr |-> isArr, kids |-> kids]

RECURSIVE Alloc(_, _)
RECURSIVE AllocKids(_, _, _)

\* the children of a tree, allocated left to right: [h, kids]
AllocKids(h, kids, i) ==
  IF i > Len(kids) THEN [h |-> h, kids |-> <<>>]
  ELSE LET first == Alloc(h, kids[i].v)
           others == AllocKids(first.h, kids, i + 1)
       IN [h |-> others.h, kids |-> <<Entry(kids[i].k, first.v)>> \o others.kids]

\* a JSON tree placed in the heap (what JSON.parse returns): [h, v]
Alloc(h, tree) ==
  IF IsContainerT(tree)
  THEN LET ks == AllocKids(h, tree.kids, 1)
       IN [h |-> Append(ks.h, Cell(tree.t = "array", ks.kids)),
           v |-> Ref(Len(ks.h) + 1)]
  ELSE [h |-> h, v |-> tree]

RECURSIVE Deref(_, _)

\* the JSON tree a value stands for in heap h
Deref(h, v) ==
  IF v.t = "ref"
  THEN LET c == h[v.n]
       IN [t |-> IF c.arr THEN "array" ELSE "object", n |-> 0, s |-> "",
           kids |-> [i \in 1..Len(c.kids) |->
                       Entry(c.kids[i].k, Deref(h, c.kids[i].v))]]
  ELSE v

(***************************************************************************)
(* Paths: a segment is a number (array index) or a string (object key).    *)
(***************************************************************************)
NumSeg(i) == [isNum |-> TRUE, i |-> i, k |-> ""]

StrSeg(k) == [isNum |-> FALSE, i |-> 0, k |-> k]

\* path === undefined: a value that is no sequence of segments
NoPath == <<[isNum |-> FALSE, i |-> -1, k |-> ""]>>

(***************************************************************************)
(* getValueByPath (lines 43-58)                                            *)
(***************************************************************************)
RECURSIVE getValueByPath(_, _, _)

getValueByPath(h, root, path) ==
  IF Len(path) = 0 THEN root
  ELSE LET seg == Head(path)
           cur == root
       IN IF cur.t \in {"undefined", "null"} THEN Undef
          ELSE IF seg.isNum
          THEN IF ~IsArray(h, cur) THEN Undef
               ELSE getValueByPath(h, ArrGet(h[cur.n].kids, seg.i), Tail(path))
          ELSE IF ~IsPlainObject(h, cur) THEN Undef
               ELSE getValueByPath(h, ObjGet(h[cur.n].kids, seg.k), Tail(path))

(***************************************************************************)
(* setValueByPath (lines 60-92)                                            *)
(***************************************************************************)
\* a container assigned to a local: the heap and the address the local holds
Local(h, a) == [h |-> h, a |-> a]

\* mutant of SpreadArray: the elements of an existing array are not copied
SpreadArrayEmpty(h, node) == Local(Append(h, Cell(TRUE, <<>>)), Len(h) + 1)

\* mutant of SpreadArray: an existing array is written in place, not copied
SpreadArrayInPlace(h, node) ==
  IF IsArray(h, node) THEN Local(h, node.n)
  ELSE Local(Append(h, Cell(TRUE, <<>>)), Len(h) + 1)

\* Array.isArray(node) ? [...node] : []   (line 73)
SpreadArray(h, node) ==
  Local(Append(h, Cell(TRUE, IF IsArray(h, node) THEN h[node.n].kids ELSE <<>>)),
        Len(h) + 1)

\* node && typeof node === "object" && !Array.isArray(node) ? {...node} : {}
\* (lines 81-84, and 100-103 in mergePrimitivesAtPath)
SpreadObject(h, node) ==
  Local(Append(h, Cell(FALSE, IF IsPlainObject(h, node) THEN h[node.n].kids ELSE <<>>)),
        Len(h) + 1)

\* the result of a helper: the heap after the call and the value returned
Ret(h, v) == [h |-> h, v |-> v]

RECURSIVE setAt(_, _, _, _)

setAt(h, node, pathSegs, value) ==
  LET head == Head(pathSegs)
      rest == Tail(pathSegs)
      isLast == Len(rest) = 0
  IN IF head.isNum
     THEN LET arr == SpreadArray(h, node)
              idx == head.i
              current == ArrGet(arr.h[arr.a].kids, idx)
              sub == IF isLast THEN Ret(arr.h, value)
                     ELSE setAt(arr.h, current, rest, value)
          IN Ret([sub.h EXCEPT ![arr.a].kids = ArrSet(@, idx, sub.v)], Ref(arr.a))
     ELSE LET key == head.k
              obj == SpreadObject(h, node)
              sub == IF isLast THEN Ret(obj.h, value)
                     ELSE setAt(obj.h, ObjGet(obj.h[obj.a].kids, key), rest, value)
          IN Ret([sub.h EXCEPT ![obj.a].kids = ObjSet(@, key, sub.v)], Ref(obj.a))

\* mutant of setValueByPath: the empty path returns the root, not the value
setValueByPathKeepsRoot(h, root, path, value) ==
  IF Len(path) = 0 THEN Ret(h, root)
  ELSE setAt(h, root, path, value)

setValueByPath(h, root, path, value) ==
  IF Len(path) = 0 THEN Ret(h, value)
  ELSE setAt(h, root, path, value)

(***************************************************************************)
(* mergePrimitivesAtPath (lines 94-113)                                    *)
(***************************************************************************)
\* mutant of SkipsEntry: no entry is skipped
SkipsNothing(v) == FALSE

\* line 107: v !== null && typeof v === "object"  ->  continue
SkipsEntry(v) == IsObjectValue(v)

RECURSIVE MergeEntries(_, _, _, _)

\* the for-loop of lines 105-110 from entry i on: the heap after it
MergeEntries(h, base, entries, i) ==
  IF i > Len(entries) THEN h
  ELSE LET k == entries[i].k
           v == entries[i].v
       IN IF SkipsEntry(v) THEN MergeEntries(h, base, entries, i + 1)
          ELSE MergeEntries([h EXCEPT ![base].kids = ObjSet(@, k, v)],
                            base, entries, i + 1)

\* partial is a reference to the parsed draft object
mergePrimitivesAtPath(h, root, path, partial) ==
  LET target == getValueByPath(h, root, path)
      base == SpreadObject(h, target)
      merged == MergeEntries(base.h, base.a, h[partial.n].kids, 1)
  IN setValueByPath(merged, root, path, Ref(base.a))

(***************************************************************************)
(* Text.  A text is a sequence of lexical tokens, each token the string of *)
(* its characters: punctuation, a numeral, a word, a quoted string, white  *)
(* space.  String contents of the model are taken from Strings and numbers *)
(* from Numbers, so that a token can be recognised by table lookup; the    *)
(* contents in Strings hold no quote, backslash, punctuation or white      *)
(* space, so that a string's raw characters are one token.                 *)
(***************************************************************************)
Strings == {"a", "c", "x", "y", "z", "q", "5", "hi", "hello", ""}

Numbers == 0..9

MaxIndent == 6      \* deepest indentation the lexer recognises

Quote(s) == "\"" \o s \o "\""

RECURSIVE Spaces(_)

Spaces(d) == IF d = 0 THEN "" ELSE "  " \o Spaces(d - 1)

\* a line break followed by the indentation of depth d (2 spaces per level)
NL(d) == "\n" \o Spaces(d)

WsTokens == {" "} \cup {NL(d) : d \in 0..MaxIndent}

IsWs(tok) == tok \in WsTokens

IsNumeral(tok) == \E n \in Numbers : ToString(n) = tok

NumeralValue(tok) == CHOOSE n \in Numbers : ToString(n) = tok

IsStringLit(tok) == \E s \in Strings : Quote(s) = tok

StringLitValue(tok) == CHOOSE s \in Strings : Quote(s) = tok

(***************************************************************************)
(* JSON.stringify(value, null, 2)                                          *)
(***************************************************************************)
RECURSIVE Stringify(_, _)
RECURSIVE StringifyKids(_, _, _, _, _)

\* the members of a container from kid i on, each on its own line at depth d;
\* an undefined array element is written null, an undefined property is left out
StringifyKids(isArr, kids, i, d, first) ==
  IF i > Len(kids) THEN <<>>
  ELSE IF ~isArr /\ kids[i].v.t = "undefined"
  THEN StringifyKids(isArr, kids, i + 1, d, first)
  ELSE (IF first THEN <<>> ELSE <<",">>)
       \o <<NL(d)>>
       \o (IF isArr THEN <<>> ELSE <<Quote(kids[i].k), ":", " ">>)
       \o Stringify(kids[i].v, d)
       \o StringifyKids(isArr, kids, i + 1, d, FALSE)

\* the text of a JSON tree nested d levels deep
Stringify(v, d) ==
  CASE v.t = "number" -> <<ToString(v.n)>>
    [] v.t = "string" -> <<Quote(v.s)>>
    [] v.t = "boolean" -> <<IF v.n = 1 THEN "true" ELSE "false">>
    [] v.t \in {"null", "undefined"} -> <<"null">>
    [] v.t = "array" ->
         LET inner == StringifyKids(TRUE, v.kids, 1, d + 1, TRUE)
         IN IF inner = <<>> THEN <<"[", "]">>
            ELSE <<"[">> \o inner \o <<NL(d), "]">>
    [] v.t = "object" ->
         LET inner == StringifyKids(FALSE, v.kids, 1, d + 1, TRUE)
         IN IF inner = <<>> THEN <<"{", "}">>
            ELSE <<"{">> \o inner \o <<NL(d), "}">>

JSONstringify(v) == Stringify(v, 0)

(***************************************************************************)
(* JSON.parse                                                              *)
(***************************************************************************)
\* a parse result: ok, the tree, and the index of the next unread token
POk(v, i) == [ok |-> TRUE, v |-> v, i |-> i]

PFail == [ok |-> FALSE, v |-> Undef, i |-> 0]

RECURSIVE SkipWs(_, _)

SkipWs(toks, i) == IF i <= Len(toks) /\ IsWs(toks[i]) THEN SkipWs(toks, i + 1) ELSE i

RECURSIVE ParseValue(_, _)
RECURSIVE ParseElements(_, _, _)
RECURSIVE ParseMembers(_, _, _)

\* the elements of an array after "[" or ",": at least one value must follow
ParseElements(toks, i, acc) ==
  LET r == ParseValue(toks, i)
      j == SkipWs(toks, r.i)
  IN IF ~r.ok \/ j > Len(toks) THEN PFail
     ELSE IF toks[j] = "," THEN ParseElements(toks, j + 1, Append(acc, Entry("", r.v)))
     ELSE IF toks[j] = "]"
     THEN POk([t |-> "array", n |-> 0, s |-> "", kids |-> Append(acc, Entry("", r.v))],
              j + 1)
     ELSE PFail

\* the members of an object after "{" or ",": a repeated key keeps its first
\* place and its last value
ParseMembers(toks, i, acc) ==
  LET k == SkipWs(toks, i)
      c == SkipWs(toks, k + 1)
  IN IF k > Len(toks) \/ c > Len(toks) THEN PFail
     ELSE IF ~IsStringLit(toks[k]) \/ toks[c] # ":" THEN PFail
     ELSE LET r == ParseValue(toks, c + 1)
              j == SkipWs(toks, r.i)
              acc2 == ObjSet(acc, StringLitValue(toks[k]), r.v)
          IN IF ~r.ok \/ j > Len(toks) THEN PFail
             ELSE IF toks[j] = "," THEN ParseMembers(toks, j + 1, acc2)
             ELSE IF toks[j] = "}"
             THEN POk([t |-> "object", n |-> 0, s |-> "", kids |-> acc2], j + 1)
             ELSE PFail

ParseValue(toks, i0) ==
  LET i == SkipWs(toks, i0)
  IN IF i > Len(toks) THEN PFail
     ELSE LET tok == toks[i]
              nx == SkipWs(toks, i + 1)
          IN CASE tok = "[" ->
                    IF nx <= Len(toks) /\ toks[nx] = "]"
                    THEN POk(ArrT(<<>>), nx + 1)
                    ELSE ParseElements(toks, i + 1, <<>>)
               [] tok = "{" ->
                    IF nx <= Len(toks) /\ toks[nx] = "}"
                    THEN POk(ObjT(<<>>), nx + 1)
                    ELSE ParseMembers(toks, i + 1, <<>>)
               [] tok = "null" -> POk(Null, i + 1)
               [] tok = "true" -> POk(Bool(TRUE), i + 1)
               [] tok = "false" -> POk(Bool(FALSE), i + 1)
               [] IsNumeral(tok) -> POk(Num(NumeralValue(tok)), i + 1)
               [] IsStringLit(tok) -> POk(Str(StringLitValue(tok)), i + 1)
               [] OTHER -> PFail

\* JSON.parse(text): ok is FALSE where JSON.parse throws
JSONparse(text) ==
  LET r == ParseValue(text, 1)
  IN IF r.ok /\ SkipWs(text, r.i) > Len(text) THEN r ELSE PFail

\* `${value}` for a row value (line 22): the raw characters, unquoted
TemplateText(v) ==
  CASE v.t = "number" -> <<ToString(v.n)>>
    [] v.t = "string" -> IF v.s = "" THEN <<>> ELSE <<v.s>>
    [] v.t = "boolean" -> <<IF v.n = 1 THEN "true" ELSE "false">>
    [] v.t = "null" -> <<"null">>
    [] OTHER -> <<"undefined">>

RECURSIVE TrimStart(_)

TrimStart(text) ==
  IF Len(text) > 0 /\ IsWs(Head(text)) THEN TrimStart(Tail(text)) ELSE text

RECURSIVE TrimEnd(_)

TrimEnd(text) ==
  IF Len(text) > 0 /\ IsWs(text[Len(text)])
  THEN TrimEnd(SubSeq(text, 1, Len(text) - 1))
  ELSE text

\* text.trim()
Trim(text) == TrimEnd(TrimStart(text))

(***************************************************************************)
(* Graph nodes (NodeData): a path and the rows shown for the node.  The key *)
(* of a row is a JavaScript value: the string of the field's name, or null *)
(* for a row that stands for a value without a name.                       *)
(***************************************************************************)
Row(key, value, type) == [key |-> key, value |-> value, type |-> type]

Node(gen, path, text) == [nil |-> FALSE, gen |-> gen, path |-> path, text |-> text]

\* selectedNode === null
NullNode == [nil |-> TRUE, gen |-> 0, path |-> <<>>, text |-> <<>>]

\* a === b for two node objects: the graph store builds every node list anew,
\* with one node per path
SameObject(a, b) ==
  /\ a.nil = b.nil
  /\ ~a.nil => (a.gen = b.gen /\ a.path = b.path)

\* the row of a field (key a string) or element (key null): a container is
\* shown by its type only
RowOf(key, v) == Row(key, IF IsContainerT(v) THEN Null ELSE v, v.t)

RECURSIVE Walk(_, _, _)
RECURSIVE WalkKids(_, _, _, _)

\* the nodes below the containers among the kids of the container at path
WalkKids(tree, path, gen, i) ==
  IF i > Len(tree.kids) THEN <<>>
  ELSE LET kid == tree.kids[i]
           seg == IF tree.t = "array" THEN NumSeg(i - 1) ELSE StrSeg(kid.k)
           here == IF IsContainerT(kid.v) THEN Walk(kid.v, Append(path, seg), gen)
                   ELSE IF tree.t = "array"
                   THEN <<Node(gen, Append(path, seg), <<RowOf(Null, kid.v)>>)>>
                   ELSE <<>>
       IN here \o WalkKids(tree, path, gen, i + 1)

\* the graph of a document: a node per object (a row per field), a node per
\* primitive array element (one row without key), in document order
Walk(tree, path, gen) ==
  CASE tree.t = "object" ->
         <<Node(gen, path, [i \in 1..Len(tree.kids) |->
                              RowOf(Str(tree.kids[i].k), tree.kids[i].v)])>>
         \o WalkKids(tree, path, gen, 1)
    [] tree.t = "array" -> WalkKids(tree, path, gen, 1)
    [] OTHER -> <<Node(gen, path, <<RowOf(Null, tree)>>)>>

GenNodes(tree, gen) == Walk(tree, <<>>, gen)

(***************************************************************************)
(* normalizeNodeData (lines 20-31)                                         *)
(***************************************************************************)
\* !v: undefined, null, false, 0 and "" are falsy
Falsy(v) ==
  \/ v.t \in {"undefined", "null"}
  \/ v.t = "boolean" /\ v.n = 0
  \/ v.t = "number" /\ v.n = 0
  \/ v.t = "string" /\ v.s = ""

\* row.type !== "array" && row.type !== "object" && row.key   (lines 26-27)
RowIsShown(row) == row.type \notin {"array", "object"} /\ ~Falsy(row.key)

RECURSIVE NormalizedKids(_, _, _)

\* the forEach of lines 25-29 from row i on: obj[row.key] = row.value
NormalizedKids(nodeRows, i, acc) ==
  IF i > Len(nodeRows) THEN acc
  ELSE NormalizedKids(nodeRows, i + 1,
                      IF RowIsShown(nodeRows[i])
                      THEN ObjSet(acc, nodeRows[i].key.s, nodeRows[i].value)
                      ELSE acc)

normalizeNodeData(nodeRows) ==
  IF Len(nodeRows) = 0 THEN <<"{", "}">>
  ELSE IF Len(nodeRows) = 1 /\ Falsy(nodeRows[1].key)
  THEN TemplateText(nodeRows[1].value)
  ELSE JSONstringify([t |-> "object", n |-> 0, s |-> "",
                      kids |-> NormalizedKids(nodeRows, 1, <<>>)])

\* useMemo(() => normalizeNodeData(nodeData?.text ?? []), [nodeData])  (line 131)
normalized(nodeData) == normalizeNodeData(nodeData.text)

(***************************************************************************)
(* pathsEqual (lines 116-124)                                              *)
(***************************************************************************)
\* mutant of SegEqual: segments are compared by their text
SegEqualByText(x, y) ==
  (IF x.isNum THEN ToString(x.i) ELSE x.k) = (IF y.isNum THEN ToString(y.i) ELSE y.k)

\* a[i] === b[i]: a number never equals a string
SegEqual(x, y) ==
  /\ x.isNum = y.isNum
  /\ IF x.isNum THEN x.i = y.i ELSE x.k = y.k

\* line 117 (a === b) is true for undefined with undefined; for the one array
\* passed twice it returns what the loop of lines 120-122 returns as well
pathsEqual(a, b) ==
  IF a = NoPath /\ b = NoPath THEN TRUE
  ELSE IF a = NoPath \/ b = NoPath THEN FALSE
  ELSE /\ Len(a) = Len(b)
       /\ \A i \in 1..Len(a) : SegEqual(a[i], b[i])

\* nodes.find(n => pathsEqual(n.path, path)): the index of the first match, 0 for none
FindByPath(nds, path) ==
  IF \E i \in 1..Len(nds) : pathsEqual(nds[i].path, path)
  THEN CHOOSE i \in 1..Len(nds) :
         /\ pathsEqual(nds[i].path, path)
         /\ \A j \in 1..(i - 1) : ~pathsEqual(nds[j].path, path)
  ELSE 0

(***************************************************************************)
(* The component's derived values (lines 139-157)                          *)
(***************************************************************************)
\* mutant of onlyContainers: rows of containers only are not detected
noContainerCheck(text) == FALSE

\* nodeData.text.every(r => r.type === "array" || r.type === "object")  (line 143)
onlyContainers(text) == \A i \in 1..Len(text) : text[i].type \in {"array", "object"}

isEditable(nodeData) ==
  IF nodeData.nil \/ Len(nodeData.path) = 0 THEN FALSE
  ELSE IF Len(nodeData.text) = 0 THEN FALSE
  ELSE IF onlyContainers(nodeData.text) THEN FALSE
  ELSE TRUE

isDraftNonEmpty(text) == Len(Trim(text)) > 0

isDraftParseable(text) ==
  IF ~isDraftNonEmpty(text) THEN FALSE ELSE JSONparse(text).ok

(***************************************************************************)
(* The effects (lines 159-179).  A render's effects run when a dependency  *)
(* differs from the previous render's; prev is the node of the previous    *)
(* render, cur the state of this one.                                      *)
(***************************************************************************)
View(sel, editing, text) == [sel |-> sel, isEditing |-> editing, draft |-> text]

\* mutant of SyncSelection: the effect never calls setSelectedNode
SyncSelectionNever(nodeData, nds) == nodeData

\* the node the selection-sync effect leaves selected (lines 168-178)
SyncSelection(nodeData, nds) ==
  IF nodeData.nil \/ Len(nds) = 0 THEN nodeData
  ELSE LET m == FindByPath(nds, nodeData.path)
       IN IF m = 0 THEN nodeData
          ELSE IF ~SameObject(nodeData, nds[m]) \/ nodeData.text # nds[m].text
          THEN nds[m]
          ELSE nodeData

\* the reset effect depends on [normalized] (line 164)
ResetFires(prev, cur) == normalized(cur) # normalized(prev)

\* the sync effect depends on [nodes, nodeData?.path, nodeData?.text] (line 179)
SyncFires(prev, cur, nodesChanged) == nodesChanged \/ ~SameObject(prev, cur)

\* what the dependency lists of a render are made of: the array of nodes (by
\* its generation) and the selected node
Deps(gen, nodeData) == [gen |-> gen, sel |-> nodeData]

\* one render and its effects
Commit(prev, cur, nds, nodesChanged) ==
  View(IF SyncFires(prev, cur.sel, nodesChanged) THEN SyncSelection(cur.sel, nds)
       ELSE cur.sel,
       IF ResetFires(prev, cur.sel) THEN FALSE ELSE cur.isEditing,
       IF ResetFires(prev, cur.sel) THEN normalized(cur.sel) ELSE cur.draft)

\* renders until no effect fires: the second render selects nothing new,
\* because the node it finds by path is the one just selected
Settle(prev, cur, nds, nodesChanged) ==
  Commit(cur.sel, Commit(prev, cur, nds, nodesChanged), nds, FALSE)

(***************************************************************************)
(* Save onClick (lines 204-274)                                            *)
(***************************************************************************)
\* lines 224-225
isPrimitiveNode(nodeData) == Len(nodeData.text) = 1 /\ Falsy(nodeData.text[1].key)

\* line 229: a primitive node refuses an object or array
PrimitiveShapeRefused(h, parsed) == IsObjectValue(parsed)

\* line 239: an object-like node refuses all but a plain object
ObjectShapeRefused(h, parsed) ==
  Falsy(parsed) \/ ~IsObjectValue(parsed) \/ IsArray(h, parsed)

Refused == [accepted |-> FALSE, contents |-> <<>>]

Accepted(ret) == [accepted |-> TRUE, contents |-> JSONstringify(Deref(ret.h, ret.v))]

\* mutant of SaveResult: a document that does not parse is taken for undefined
SaveResultOnAnyDocument(nodeData, jsonStr, draftText) ==
  LET p == JSONparse(draftText)
  IN IF nodeData.nil \/ ~p.ok THEN Refused
     ELSE LET r == Alloc(<<>>, JSONparse(jsonStr).v)
              d == Alloc(r.h, p.v)
          IN IF isPrimitiveNode(nodeData)
             THEN IF PrimitiveShapeRefused(d.h, d.v) THEN Refused
                  ELSE Accepted(setValueByPath(d.h, r.v, nodeData.path, d.v))
             ELSE IF ObjectShapeRefused(d.h, d.v) THEN Refused
                  ELSE Accepted(mergePrimitivesAtPath(d.h, r.v, nodeData.path, d.v))

\* the handler down to setContents: whether it gets there, and with what text
SaveResult(nodeData, jsonStr, draftText) ==
  IF nodeData.nil THEN Refused
  ELSE LET doc == JSONparse(jsonStr)
           p == JSONparse(draftText)
       IN IF ~doc.ok THEN Refused
          ELSE IF ~p.ok THEN Refused
          ELSE LET r == Alloc(<<>>, doc.v)
                   d == Alloc(r.h, p.v)
                   root == r.v
                   parsed == d.v
               IN IF isPrimitiveNode(nodeData)
                  THEN IF PrimitiveShapeRefused(d.h, parsed) THEN Refused
                       ELSE Accepted(setValueByPath(d.h, root, nodeData.path, parsed))
                  ELSE IF ObjectShapeRefused(d.h, parsed) THEN Refused
                       ELSE Accepted(mergePrimitivesAtPath(d.h, root, nodeData.path,
                                                           parsed))

\* lines 261-265: latestNodes.find(...), then setSelectedNode(matched) if any
Reselect(nodeData, latestNodes) ==
  LET m == FindByPath(latestNodes, nodeData.path)
  IN IF m = 0 THEN nodeData ELSE latestNodes[m]

(***************************************************************************)
(* The documents the editor starts from, and the texts typed in the draft. *)
(***************************************************************************)
\* {"a":{"x":1,"y":[1,{"q":2}]}}
DocNested ==
  ObjT(<< <<"a", ObjT(<< <<"x", Num(1)>>,
                         <<"y", ArrT(<<Num(1), ObjT(<< <<"q", Num(2)>> >>)>>)>> >>)>> >>)

\* ["5", 5, "hi"]
DocList == ArrT(<<Str("5"), Num(5), Str("hi")>>)

\* {"x":1,"c":{"x":1,"y":{"q":{}}}}
DocTwins ==
  ObjT(<< <<"x", Num(1)>>,
          <<"c", ObjT(<< <<"x", Num(1)>>,
                         <<"y", ObjT(<< <<"q", ObjT(<<>>)>> >>)>> >>)>> >>)

\* {"c":{"":1}}: an object whose one field has the empty string for its name
DocEmptyKey == ObjT(<< <<"c", ObjT(<< <<"", Num(1)>> >>)>> >>)

Docs == {DocNested, DocList, DocTwins, DocEmptyKey}

\* the text JSON.parse cannot read that the text editor leaves in the store
BrokenText == <<"{">>

Drafts ==
  { <<"{", Quote("x"), ":", "5", ",", Quote("z"), ":", "9", "}">>,    \* {"x":5,"z":9}
    <<"{", Quote("y"), ":", "7", "}">>,                               \* {"y":7}
    <<"{", Quote("y"), ":", "{", "}", ",", Quote("z"), ":", "[", "3", "]", "}">>,
                                                                      \* {"y":{},"z":[3]}
    <<"[", "1", ",", "2", ",", "3", "]">>,                            \* [1,2,3]
    <<Quote("hello")>>,                                               \* "hello"
    <<"null">>,                                                       \* null
    <<"{">>,                                                          \* {
    <<" ">> }                                                         \* one blank

(***************************************************************************)
(* The state after construction: a document, its graph, nothing selected.  *)
(***************************************************************************)
NoCall == [op |-> "none", before |-> <<>>, root |-> Undef, arg |-> Undef,
           h |-> <<>>, v |-> Undef]

NoArgs == [root |-> Undef, path |-> <<>>, value |-> Undef, partial |-> Undef]

InitUI(doc) ==
  /\ contents = JSONstringify(doc)
  /\ nodes = GenNodes(doc, 1)
  /\ nodesGen = 1
  /\ pending = FALSE
  /\ selectedNode = NullNode
  /\ isEditing = FALSE
  /\ draft = normalized(NullNode)
  /\ writes = 0
  /\ event = "init"
  /\ rendered = Deps(1, NullNode)

Init ==
  /\ \E doc \in Docs : InitUI(doc)
  /\ fnArgs = NoArgs
  /\ fnRes = NoCall

(***************************************************************************)
(* The handlers.  Each runs to the end, and the renders it causes with it. *)
(***************************************************************************)
\* what a render cycle leaves in the component and in useGraph.selectedNode
Rendered(view) ==
  /\ selectedNode' = view.sel
  /\ isEditing' = view.isEditing
  /\ draft' = view.draft

\* Edit button (lines 191-198): shown while not editing
ClickEdit ==
  /\ ~isEditing
  /\ isEditing' = isEditable(selectedNode)
  /\ event' = "edit"
  /\ UNCHANGED <<contents, nodes, nodesGen, pending, selectedNode, draft, writes>>
  /\ UNCHANGED fnVars
  /\ rendered' = Deps(nodesGen', selectedNode')

\* Textarea onChange (line 298): shown while editing
ChangeDraft(text) ==
  /\ isEditing
  /\ draft' = text
  /\ event' = "change"
  /\ UNCHANGED <<contents, nodes, nodesGen, pending, selectedNode, isEditing, writes>>
  /\ UNCHANGED fnVars
  /\ rendered' = Deps(nodesGen', selectedNode')

\* mutant of ClickCancel: the draft is left as typed
ClickCancelKeepsDraft ==
  /\ isEditing
  /\ isEditing' = FALSE
  /\ event' = "cancel"
  /\ UNCHANGED <<contents, nodes, nodesGen, pending, selectedNode, draft, writes>>
  /\ UNCHANGED fnVars
  /\ rendered' = Deps(nodesGen', selectedNode')

\* Cancel button (lines 278-288)
ClickCancel ==
  /\ isEditing
  /\ draft' = normalized(selectedNode)
  /\ isEditing' = FALSE
  /\ event' = "cancel"
  /\ UNCHANGED <<contents, nodes, nodesGen, pending, selectedNode, writes>>
  /\ UNCHANGED fnVars
  /\ rendered' = Deps(nodesGen', selectedNode')

\* mutant of ClickSave: the button is never disabled, and the handler leaves
\* edit mode before it parses anything
ClickSaveLeavesEditMode ==
  /\ isEditing
  /\ writes < MaxSaves
  /\ event' = "save"
  /\ isEditing' = FALSE
  /\ UNCHANGED <<contents, nodes, nodesGen, pending, selectedNode, draft, writes>>
  /\ UNCHANGED fnVars
  /\ rendered' = Deps(nodesGen', selectedNode')

\* Save button (lines 201-277): shown while editing, inert while disabled.
\* setContents stores the text and has the graph store regenerate the nodes,
\* at once (sync) or later (Regenerate).
ClickSave ==
  /\ isEditing
  /\ writes < MaxSaves
  /\ event' = "save"
  /\ UNCHANGED fnVars
  /\ LET disabled == ~isDraftNonEmpty(draft) \/ ~isDraftParseable(draft)
         res == SaveResult(selectedNode, contents, draft)
     IN IF disabled \/ ~res.accepted
        THEN UNCHANGED <<contents, nodes, nodesGen, pending, selectedNode, isEditing,
                         draft, writes>>
        ELSE \E sync \in BOOLEAN :
               LET latestNodes == IF sync
                                  THEN GenNodes(JSONparse(res.contents).v, nodesGen + 1)
                                  ELSE nodes
               IN /\ contents' = res.contents
                  /\ writes' = writes + 1
                  /\ nodes' = latestNodes
                  /\ nodesGen' = IF sync THEN nodesGen + 1 ELSE nodesGen
                  /\ pending' = ~sync
                  /\ Rendered(Settle(selectedNode,
                                     View(Reselect(selectedNode, latestNodes),
                                          FALSE, draft),
                                     latestNodes, sync))
  /\ rendered' = Deps(nodesGen', selectedNode')

\* the graph store regenerates the nodes from the stored text, and keeps the
\* graph it has when the text does not parse
Regenerate ==
  /\ pending
  /\ pending' = FALSE
  /\ event' = "regenerate"
  /\ UNCHANGED <<contents, writes>>
  /\ UNCHANGED fnVars
  /\ LET doc == JSONparse(contents)
     IN IF doc.ok
        THEN /\ nodes' = GenNodes(doc.v, nodesGen + 1)
             /\ nodesGen' = nodesGen + 1
             /\ Rendered(Settle(selectedNode, View(selectedNode, isEditing, draft),
                                GenNodes(doc.v, nodesGen + 1), TRUE))
        ELSE UNCHANGED <<nodes, nodesGen, selectedNode, isEditing, draft>>
  /\ rendered' = Deps(nodesGen', selectedNode')

\* the user picks a node of the graph: useGraph.setSelectedNode(node)
SelectNode(i) ==
  /\ ~SameObject(selectedNode, nodes[i])
  /\ event' = "select"
  /\ UNCHANGED <<contents, nodes, nodesGen, pending, writes>>
  /\ UNCHANGED fnVars
  /\ Rendered(Settle(selectedNode, View(nodes[i], isEditing, draft), nodes, FALSE))
  /\ rendered' = Deps(nodesGen', selectedNode')

\* the text editor leaves text in useFile that is not JSON
BreakDocument ==
  /\ contents # BrokenText
  /\ contents' = BrokenText
  /\ event' = "editor"
  /\ UNCHANGED <<nodes, nodesGen, pending, selectedNode, isEditing, draft, writes>>
  /\ UNCHANGED fnVars
  /\ rendered' = Deps(nodesGen', selectedNode')

Next ==
  \/ ClickEdit
  \/ \E text \in Drafts : ChangeDraft(text)
  \/ ClickCancel
  \/ ClickSave
  \/ Regenerate
  \/ \E i \in 1..Len(nodes) : SelectNode(i)
  \/ BreakDocument

Spec == Init /\ [][Next]_vars

(***************************************************************************)
(* The helpers called on their own: getValueByPath, setValueByPath and     *)
(* mergePrimitivesAtPath applied to arguments drawn from small sets.  The  *)
(* root, the value and the partial are placed in a heap first, as the      *)
(* caller's JSON.parse does.                                               *)
(***************************************************************************)
FnSegs == {NumSeg(0), NumSeg(1), StrSeg("a"), StrSeg("y")}

FnPaths == UNION {[1..n -> FnSegs] : n \in 0..MaxPathLen}

FnRoots ==
  { Num(1), Null, ArrT(<<Num(1), Num(2)>>), DocNested,
    ObjT(<< <<"a", ArrT(<<ObjT(<< <<"y", Num(1)>> >>), Str("hi")>>)>>,
            <<"y", Num(7)>> >>) }

FnValues == {Num(5), Null, Str("hi"), ArrT(<<Num(3)>>), ObjT(<< <<"q", Num(1)>> >>)}

FnPartials ==
  { ObjT(<< <<"x", Num(5)>>, <<"z", Num(9)>> >>),
    ObjT(<< <<"y", Num(7)>> >>),
    ObjT(<< <<"y", ObjT(<<>>)>>, <<"z", ArrT(<<Num(3)>>)>>, <<"a", Null>> >>),
    ObjT(<< <<"x", ArrT(<<>>)>>, <<"y", ObjT(<< <<"q", Num(1)>> >>)>> >>) }

InitFn ==
  /\ InitUI(DocNested)
  /\ fnArgs \in [root : FnRoots, path : FnPaths, value : FnValues,
                 partial : FnPartials]
  /\ fnRes = NoCall

\* the heap holding the arguments: root, then value, then partial
ArgHeap ==
  LET r == Alloc(<<>>, fnArgs.root)
      v == Alloc(r.h, fnArgs.value)
      p == Alloc(v.h, fnArgs.partial)
  IN [h |-> p.h, root |-> r.v, value |-> v.v, partial |-> p.v]

Called(op, arg, ret) ==
  fnRes' = [op |-> op, before |-> ArgHeap.h, root |-> ArgHeap.root, arg |-> arg,
            h |-> ret.h, v |-> ret.v]

CallGet ==
  /\ Called("get", Undef, Ret(ArgHeap.h, getValueByPath(ArgHeap.h, ArgHeap.root, fnArgs.path)))
  /\ UNCHANGED <<fnArgs>>
  /\ UNCHANGED uiVars
  /\ UNCHANGED rendered

CallSet ==
  /\ Called("set", ArgHeap.value,
            setValueByPath(ArgHeap.h, ArgHeap.root, fnArgs.path, ArgHeap.value))
  /\ UNCHANGED <<fnArgs>>
  /\ UNCHANGED uiVars
  /\ UNCHANGED rendered

CallMerge ==
  /\ Called("merge", ArgHeap.partial,
            mergePrimitivesAtPath(ArgHeap.h, ArgHeap.root, fnArgs.path, ArgHeap.partial))
  /\ UNCHANGED <<fnArgs>>
  /\ UNCHANGED uiVars
  /\ UNCHANGED rendered

NextFn == CallGet \/ CallSet \/ CallMerge

SpecFn == InitFn /\ [][NextFn]_vars

(***************************************************************************)
(* The effects render by render.  The graph store sets a new node list a   *)
(* bounded number of times; the component renders whenever the list or the *)
(* selected node is not the one its effects last ran with, and each render *)
(* runs its effects once (Commit).  At the start a node of an earlier list *)
(* may be selected, and the component has not rendered with the list yet.  *)
(***************************************************************************)
InitSync ==
  /\ \E doc \in Docs :
       /\ contents = JSONstringify(doc)
       /\ nodes = GenNodes(doc, 1)
  /\ nodesGen = 1
  /\ pending = FALSE
  /\ \E old \in Docs :
       \/ selectedNode = NullNode
       \/ \E i \in 1..Len(GenNodes(old, 0)) : selectedNode = GenNodes(old, 0)[i]
  /\ isEditing = FALSE
  /\ draft = normalized(selectedNode)
  /\ writes = 0
  /\ event = "init"
  /\ rendered = Deps(0, selectedNode)
  /\ fnArgs = NoArgs
  /\ fnRes = NoCall

\* the graph store sets the node list of a document
StoreSetsNodes(doc) ==
  /\ nodesGen < 1 + MaxRegens
  /\ contents' = JSONstringify(doc)
  /\ nodes' = GenNodes(doc, nodesGen + 1)
  /\ nodesGen' = nodesGen + 1
  /\ event' = "nodes"
  /\ UNCHANGED <<pending, selectedNode, isEditing, draft, writes, rendered>>
  /\ UNCHANGED fnVars

\* a render is due: the store holds a list or a node the effects have not seen
RenderDue == rendered # Deps(nodesGen, selectedNode)

\* one render of the component and its effects (lines 159-179)
RenderEffects ==
  /\ RenderDue
  /\ Rendered(Commit(rendered.sel, View(selectedNode, isEditing, draft), nodes,
                     rendered.gen # nodesGen))
  /\ rendered' = Deps(nodesGen, selectedNode)
  /\ event' = "effects"
  /\ UNCHANGED <<contents, nodes, nodesGen, pending, writes>>
  /\ UNCHANGED fnVars

NextSync ==
  \/ \E doc \in Docs : StoreSetsNodes(doc)
  \/ RenderEffects

\* React runs the effects of every render
SpecSync == InitSync /\ [][NextSync]_vars /\ WF_vars(RenderEffects)

(***************************************************************************)
(* pathsEqual called on its own, on two paths drawn from a small set; a    *)
(* path may be absent.                                                     *)
(***************************************************************************)
PathSegs == {NumSeg(0), NumSeg(1), StrSeg("1"), StrSeg("a")}

PathArgs == {NoPath} \cup UNION {[1..n -> PathSegs] : n \in 0..MaxPathLen}

InitPaths ==
  /\ InitUI(DocNested)
  /\ fnArgs \in [a : PathArgs, b : PathArgs]
  /\ fnRes = NoCall

CallPathsEqual ==
  /\ fnRes' = [op |-> "pathsEqual", before |-> <<>>, root |-> Undef, arg |-> Undef,
                h |-> <<>>, v |-> Bool(pathsEqual(fnArgs.a, fnArgs.b))]
  /\ UNCHANGED <<fnArgs>>
  /\ UNCHANGED uiVars
  /\ UNCHANGED rendered

NextPaths == CallPathsEqual

SpecPaths == InitPaths /\ [][NextPaths]_vars

(***************************************************************************)
(* normalizeNodeData called on its own, on row lists drawn from a small    *)
(* set: a row's key is null or a string, the empty string among them.      *)
(***************************************************************************)
RowKeys == {Null, Str(""), Str("a"), Str("x")}

\* the value and the type tag of a row
RowValues ==
  { <<Num(1), "number">>, <<Str("hi"), "string">>, <<Null, "array">>, <<Null, "object">> }

FnRows == {Row(k, vt[1], vt[2]) : k \in RowKeys, vt \in RowValues}

RowLists == UNION {[1..n -> FnRows] : n \in 0..MaxRows}

InitRows ==
  /\ InitUI(DocNested)
  /\ fnArgs \in [rows : RowLists]
  /\ fnRes = NoCall

CallNormalize ==
  /\ fnRes' = [op |-> "normalize", before |-> <<>>, root |-> Undef, arg |-> Undef,
                h |-> <<>>, v |-> normalizeNodeData(fnArgs.rows)]
  /\ UNCHANGED <<fnArgs>>
  /\ UNCHANGED uiVars
  /\ UNCHANGED rendered

NextRows == CallNormalize

SpecRows == InitRows /\ [][NextRows]_vars

(***************************************************************************)
(* Properties of the helpers (under SpecFn).                               *)
(***************************************************************************)
\* the JSON tree at `path` below `root` in heap h (undefined when absent)
TreeIn(h, root, path) == Deref(h, getValueByPath(h, root, path))

\* the head segment does not fit the container it meets, or meets none
HeadMismatch(tree, seg) == IF seg.isNum THEN tree.t # "array" ELSE tree.t # "object"

C4_NoMutation ==
  fnRes.op = "set" =>
    /\ Deref(fnRes.h, fnRes.root) = fnArgs.root
    /\ \A a \in 1..Len(fnRes.before) : fnRes.h[a] = fnRes.before[a]

\* a write two levels down an existing spine that ends in an array, which
\* changes what is there
C4_Witness ==
  /\ fnRes.op = "set"
  /\ Len(fnArgs.path) = 2
  /\ fnArgs.path[2].isNum
  /\ TreeIn(fnRes.before, fnRes.root, fnArgs.path) # Undef
  /\ Deref(fnRes.h, fnRes.v) # fnArgs.root

\* the keys of the partial whose proposed value is an object or array
StructuralKeys(partial) ==
  {partial.kids[i].k : i \in {j \in 1..Len(partial.kids) : IsContainerT(partial.kids[j].v)}}

\* C8: mergePrimitivesAtPath applies no entry whose proposed value is an
\* object or array: under each such key the result at the path holds the
\* value, or the absence, that was there before.
C8_StructuralEntriesSkipped ==
  fnRes.op = "merge" =>
    \A k \in StructuralKeys(fnArgs.partial) :
      TreeIn(fnRes.h, fnRes.v, Append(fnArgs.path, StrSeg(k)))
        = TreeIn(fnRes.before, fnRes.root, Append(fnArgs.path, StrSeg(k)))

\* a merge into an existing object where one proposed structural entry meets
\* an existing field and another a key the object lacks, beside a primitive
\* entry that is applied
C8_Witness ==
  /\ fnRes.op = "merge"
  /\ TreeIn(fnRes.before, fnRes.root, fnArgs.path).t = "object"
  /\ \E k \in StructuralKeys(fnArgs.partial) :
       TreeIn(fnRes.before, fnRes.root, Append(fnArgs.path, StrSeg(k))) # Undef
  /\ \E k \in StructuralKeys(fnArgs.partial) :
       TreeIn(fnRes.h, fnRes.v, Append(fnArgs.path, StrSeg(k))) = Undef
  /\ \E i \in 1..Len(fnArgs.partial.kids) :
       /\ ~IsContainerT(fnArgs.partial.kids[i].v)
       /\ TreeIn(fnRes.h, fnRes.v, Append(fnArgs.path, StrSeg(fnArgs.partial.kids[i].k)))
            = fnArgs.partial.kids[i].v

RECURSIVE Follow(_, _)

\* the value met by following the segments of `path` in order from `tree`:
\* undefined where a number segment meets anything but an array, a string
\* segment anything but an object, or the array or object lacks the member
Follow(tree, path) ==
  IF Len(path) = 0 THEN tree
  ELSE LET seg == Head(path)
           members == {i \in 1..Len(tree.kids) :
                         IF seg.isNum THEN i = seg.i + 1 ELSE tree.kids[i].k = seg.k}
       IN IF (seg.isNum /\ tree.t # "array") \/ (~seg.isNum /\ tree.t # "object")
          THEN Undef
          ELSE IF members = {} THEN Undef
          ELSE Follow(tree.kids[CHOOSE i \in members : TRUE].v, Tail(path))

TreeAt(tree, path) ==
  LET r == Alloc(<<>>, tree)
  IN TreeIn(r.h, r.v, path)

\* the document the store holds, as a tree
DocTree(text) == JSONparse(text).v

IsPrefix(p, q) == Len(p) <= Len(q) /\ SubSeq(q, 1, Len(p)) = p

RECURSIVE AllPaths(_, _)

\* the paths of all values in a tree, from the path of the tree itself
AllPaths(tree, path) ==
  {path} \cup
  UNION {AllPaths(tree.kids[i].v,
                  Append(path, IF tree.t = "array" THEN NumSeg(i - 1)
                               ELSE StrSeg(tree.kids[i].k)))
         : i \in 1..Len(tree.kids)}

\* the paths of either document that lie outside p: neither above nor below it
Outside(before, after, p) ==
  {q \in AllPaths(before, <<>>) \cup AllPaths(after, <<>>) :
     ~IsPrefix(q, p) /\ ~IsPrefix(p, q)}

Keys(tree) == {tree.kids[i].k : i \in 1..Len(tree.kids)}

Field(tree, k) == TreeAt(tree, <<StrSeg(k)>>)

\* the node is shown as one row without key
SingleKeylessRow(node) == Len(node.text) = 1 /\ node.text[1].key = Null

\* this step is a Save click that called setContents
AcceptedSave == event' = "save" /\ writes' = writes + 1

\* C1: an accepted save of an object-like node keeps every field of the
\* object at the node's path whose value is an object or array, whatever the
\* draft holds.
C1_StructuralFieldsKept ==
  [][(AcceptedSave /\ ~SingleKeylessRow(selectedNode)) =>
       LET old == TreeAt(DocTree(contents), selectedNode.path)
       IN \A k \in Keys(old) :
            (old.t = "object" /\ IsContainerT(Field(old, k))) =>
              TreeAt(DocTree(contents'), Append(selectedNode.path, StrSeg(k)))
                = Field(old, k)]_vars

\* the selected node differs by path or by row content
NodeChanged(a, b) == a.nil # b.nil \/ a.path # b.path \/ a.text # b.text

\* C2: whenever the selected node changes (path or row content), in any
\* session state, the draft becomes the normalized text of the new node and
\* the session is Viewing.
C2_SelectionChangeResets ==
  [][NodeChanged(selectedNode, selectedNode') =>
       (draft' = normalizeNodeData(selectedNode'.text) /\ ~isEditing')]_vars

\* the primitive-or-null entries of a parsed draft object
PrimitiveKeys(obj) ==
  {obj.kids[i].k : i \in {j \in 1..Len(obj.kids) : ~IsContainerT(obj.kids[j].v)}}

\* C5: an accepted save of an object-like node whose draft parses to a plain
\* object leaves a document in which the object at the node's path has every
\* primitive-or-null field of the draft at the draft's value and every other
\* field it had, and in which every value outside the node's path is as before.
C5_ObjectSaveMerges ==
  [][(/\ AcceptedSave
      /\ ~SingleKeylessRow(selectedNode)
      /\ DocTree(draft).t = "object") =>
       LET before == DocTree(contents)
           after == DocTree(contents')
           parsed == DocTree(draft)
           old == TreeAt(before, selectedNode.path)
           new == TreeAt(after, selectedNode.path)
       IN /\ new.t = "object"
          /\ \A k \in PrimitiveKeys(parsed) : Field(new, k) = Field(parsed, k)
          /\ old.t = "object" =>
               \A k \in Keys(old) \ PrimitiveKeys(parsed) : Field(new, k) = Field(old, k)
          /\ \A q \in Outside(before, after, selectedNode.path) :
               TreeAt(after, q) = TreeAt(before, q)]_vars

\* C6: an accepted save of a primitive node at a path that addresses a value
\* of the current document leaves a document whose value at the path is the
\* parsed draft and in which every value outside the path is as before.
C6_PrimitiveSaveOverwrites ==
  [][(/\ AcceptedSave
      /\ SingleKeylessRow(selectedNode)
      /\ TreeAt(DocTree(contents), selectedNode.path) # Undef) =>
       LET before == DocTree(contents)
           after == DocTree(contents')
       IN /\ TreeAt(after, selectedNode.path) = DocTree(draft)
          /\ \A q \in Outside(before, after, selectedNode.path) :
               TreeAt(after, q) = TreeAt(before, q)]_vars

\* the state after such a save: the value at the saved path is a string that
\* the document did not hold there before, beside siblings
C6_Witness ==
  /\ event = "save"
  /\ writes = 1
  /\ ~selectedNode.nil
  /\ SingleKeylessRow(selectedNode)
  /\ Len(selectedNode.path) > 0
  /\ TreeAt(DocTree(contents), selectedNode.path) = Str("hello")
  /\ DocTree(contents).t = "array"
  /\ Len(DocTree(contents).kids) > 1

\* the parsed draft does not fit the kind of the node
WrongShape(node, text) ==
  /\ ~node.nil
  /\ JSONparse(text).ok
  /\ IF SingleKeylessRow(node) THEN IsContainerT(DocTree(text))
     ELSE DocTree(text).t # "object"

\* C7: a save whose parsed draft has the wrong shape for the node kind is
\* refused: setContents is not called, the document is unchanged, the
\* session stays in Editing and the draft is kept.
C7_WrongShapeRefused ==
  [][(event' = "save" /\ isEditing /\ WrongShape(selectedNode, draft)) =>
       (/\ writes' = writes
        /\ contents' = contents
        /\ isEditing'
        /\ draft' = draft)]_vars

\* the selected node is editable: a non-empty path, a row, and a row that is
\* neither array nor object
Editable(node) ==
  /\ ~node.nil
  /\ Len(node.path) > 0
  /\ Len(node.text) > 0
  /\ \E i \in 1..Len(node.text) : node.text[i].type \notin {"array", "object"}

\* C9: the session goes from Viewing to Editing only when the selected node
\* is editable; the Edit action on any other node leaves it in Viewing.
C9_EditOnlyWhenEditable ==
  [][/\ (~isEditing /\ isEditing') => (event' = "edit" /\ Editable(selectedNode))
     /\ (event' = "edit" /\ ~isEditing /\ ~Editable(selectedNode)) => ~isEditing']_vars

\* the state after Edit on a node with a path and rows, all of them containers
C9_Witness ==
  /\ event = "edit"
  /\ ~isEditing
  /\ ~selectedNode.nil
  /\ Len(selectedNode.path) > 0
  /\ Len(selectedNode.text) > 0
  /\ ~Editable(selectedNode)

\* C10: Cancel makes the draft the normalized text of the selected node and
\* the session Viewing, and leaves the document and the selected node alone.
C10_CancelDiscards ==
  [][(event' = "cancel" /\ isEditing) =>
       (/\ draft' = normalizeNodeData(selectedNode.text)
        /\ ~isEditing'
        /\ contents' = contents
        /\ writes' = writes
        /\ selectedNode' = selectedNode)]_vars

\* the state after Cancel on an editable node of a document never saved
C10_Witness ==
  /\ event = "cancel"
  /\ ~isEditing
  /\ Editable(selectedNode)
  /\ draft = normalizeNodeData(selectedNode.text)
  /\ draft \notin Drafts
  /\ writes = 0

\* C11: while the draft is empty after trimming or does not parse as JSON,
\* Save is inert: a click on it changes neither the document nor the draft
\* nor the selected node, calls setContents not at all, and leaves the
\* session in Editing.
C11_SaveInertWhileDisabled ==
  [][(/\ event' = "save"
      /\ isEditing
      /\ (Len(Trim(draft)) = 0 \/ ~JSONparse(draft).ok)) =>
       (/\ contents' = contents
        /\ writes' = writes
        /\ isEditing'
        /\ draft' = draft
        /\ selectedNode' = selectedNode)]_vars

\* the state after a click on Save with a draft that is not empty and does
\* not parse, on an editable node of a document that parses
C11_Witness ==
  /\ event = "save"
  /\ isEditing
  /\ Len(Trim(draft)) > 0
  /\ ~JSONparse(draft).ok
  /\ Editable(selectedNode)
  /\ JSONparse(contents).ok
  /\ writes = 0

\* C15: when an accepted save re-resolves the selection, the node list it
\* reads is one the graph store derived from the post-edit document: no
\* regeneration is outstanding when the handler finds its node, and a node
\* the sync effect selects after the regeneration is a node of the new list.
C15_ReselectFromPostEditList ==
  [][/\ (AcceptedSave /\ FindByPath(nodes', selectedNode.path) # 0) => ~pending'
     /\ (event' = "regenerate" /\ selectedNode' # selectedNode) =>
          (/\ ~pending'
           /\ \E i \in 1..Len(nodes') : nodes'[i] = selectedNode')]_vars

\* C16: a click on Save while the text of the document store does not parse
\* as JSON stops before the draft is applied: setContents is not called, the
\* document and the selected node are unchanged, and the session stays in
\* Editing with its draft.
C16_CorruptDocumentAborts ==
  [][(event' = "save" /\ isEditing /\ ~JSONparse(contents).ok) =>
       (/\ writes' = writes
        /\ contents' = contents
        /\ selectedNode' = selectedNode
        /\ isEditing'
        /\ draft' = draft)]_vars

\* the state after a click on Save with a draft of the right shape for the
\* node while the document is text that does not parse
C16_Witness ==
  /\ event = "save"
  /\ isEditing
  /\ contents = BrokenText
  /\ JSONparse(draft).ok
  /\ Editable(selectedNode)
  /\ ~WrongShape(selectedNode, draft)

\* C18: while the session is in Editing the selected node is editable.
C18_EditingImpliesEditable == isEditing => Editable(selectedNode)

\* C19: an accepted save of the draft as Edit left it, on an editable node
\* of the graph of the current document, leaves a document that parses to
\* the JSON value it had.
C19_UnmodifiedSaveIsNoOp ==
  [][(/\ AcceptedSave
      /\ Editable(selectedNode)
      /\ draft = normalizeNodeData(selectedNode.text)
      /\ nodes = GenNodes(DocTree(contents), nodesGen)
      /\ \E i \in 1..Len(nodes) : nodes[i] = selectedNode) =>
       DocTree(contents') = DocTree(contents)]_vars

(***************************************************************************)
(* Properties of pathsEqual (under SpecPaths).                             *)
(***************************************************************************)
\* C12: pathsEqual(a, b) is true exactly when a and b have the same length
\* and, at every index, segments of the same type and the same value (a
\* number segment equals no string segment); pathsEqual(P, P) is true.
C12_PathsEqualIffSame ==
  fnRes.op = "pathsEqual" =>
    /\ (fnArgs.a # NoPath /\ fnArgs.b # NoPath) =>
         (fnRes.v = Bool(/\ Len(fnArgs.a) = Len(fnArgs.b)
                         /\ \A i \in 1..Len(fnArgs.a) :
                              /\ fnArgs.a[i].isNum = fnArgs.b[i].isNum
                              /\ fnArgs.a[i].i = fnArgs.b[i].i
                              /\ fnArgs.a[i].k = fnArgs.b[i].k))
    /\ fnArgs.a = fnArgs.b => fnRes.v = Bool(TRUE)

\* pathsEqual([1], ["1"]) has returned false
C12_Witness ==
  /\ fnRes.op = "pathsEqual"
  /\ fnArgs.a = <<NumSeg(1)>>
  /\ fnArgs.b = <<StrSeg("1")>>
  /\ fnRes.v = Bool(FALSE)

(***************************************************************************)
(* Properties of normalizeNodeData (under SpecRows).                       *)
(***************************************************************************)
\* the row carries a key: the name of a field, which is a string
RowHasKey(row) == row.key.t = "string"

RECURSIVE BuiltInRowOrder(_, _, _)

\* the fields of the object built, in row order, from the rows from i on
\* that have a key and are neither array nor object
BuiltInRowOrder(rows, i, acc) ==
  IF i > Len(rows) THEN acc
  ELSE BuiltInRowOrder(rows, i + 1,
                       IF RowHasKey(rows[i]) /\ rows[i].type \notin {"array", "object"}
                       THEN ObjSet(acc, rows[i].key.s, rows[i].value)
                       ELSE acc)

\* C14: normalizeNodeData gives the text {} for the empty row list, the raw
\* value as text for a list of exactly one row with no key, and for every
\* other list the 2-space-indented serialization of the object built, in
\* row order, from exactly the rows that have a key and whose type is
\* neither array nor object.
C14_NormalizeByCases ==
  fnRes.op = "normalize" =>
    fnRes.v = (IF Len(fnArgs.rows) = 0 THEN <<"{", "}">>
               ELSE IF Len(fnArgs.rows) = 1 /\ ~RowHasKey(fnArgs.rows[1])
               THEN TemplateText(fnArgs.rows[1].value)
               ELSE JSONstringify([t |-> "object", n |-> 0, s |-> "",
                                   kids |-> BuiltInRowOrder(fnArgs.rows, 1, <<>>)]))

(***************************************************************************)
(* Properties of the selection-sync effect (under SpecSync).               *)
(***************************************************************************)
\* no render is due, the sync effect would select nothing, and the selected
\* node is the first node of the list with its path where there is one
SelectionStable ==
  /\ ~RenderDue
  /\ SyncSelection(selectedNode, nodes) = selectedNode
  /\ (~selectedNode.nil /\ FindByPath(nodes, selectedNode.path) # 0) =>
       selectedNode = nodes[FindByPath(nodes, selectedNode.path)]

\* C17: once the node list stops changing, the selection comes to rest: from
\* some render on the selected node is the first node of the list with the
\* selected path (where there is one) and no selection update is due; a
\* render that finds no node with the selected path leaves the selection.
C17_SelectionSyncStabilizes ==
  /\ <>[]SelectionStable
  /\ [][(/\ event' = "effects"
          /\ (selectedNode.nil \/ FindByPath(nodes, selectedNode.path) = 0)) =>
           selectedNode' = selectedNode]_vars

\* the selection at rest on a node of a list set after the start, which the
\* sync effect has put in the place of a node of an earlier list
C17_Witness ==
  /\ SelectionStable
  /\ event = "effects"
  /\ ~selectedNode.nil
  /\ selectedNode.gen = nodesGen
  /\ nodesGen > 1

====
